---- MODULE Spec2Model ----
(***************************************************************************)
(* A model of the WEBAR upload server (src/server.js) together with the    *)
(* background model optimizer it spawns (src/compare_models.js).           *)
(*                                                                         *)
(* File names are tuples of strings (a stored upload "a-model.glb" is      *)
(* <<"a", "-", "model", ".glb">>), paths are sequences of such segments,   *)
(* and a file's content is identified by who wrote it (kind, of, idx) and  *)
(* by its size in bytes: byte i of a file is the pair (content, i), so a   *)
(* response body is a window [lo, hi] of one content.                      *)
(***************************************************************************)
EXTENDS Integers, Sequences, FiniteSets, TLC

\* ------------------------------------------------------------------ bounds
MaxUploads == 2
MaxModels == 1
MaxProps == 2

\* ------------------------------------------------------- program constants
COMPRESS_THRESHOLD == 1024
UPLOAD_LIMIT == 524288000
OPTIMIZE_LIMIT_MB == 200
MB == 1048576
PROPS_MAX_COUNT == 20

\* ------------------------------------------------------------------- names
Ids == {"a", "b"}
DotDot == <<"..">>
PUBLIC_DIR == << <<"public">> >>
UPLOADS_DIR == Append(PUBLIC_DIR, <<"uploads">>)
OPTIMIZED_DIR == Append(UPLOADS_DIR, <<"optimized">>)

\* A model that ships with the site, outside the upload root.
StaticModel == <<"warrior", ".glb">>
STATIC_DIR == << <<"public">>, <<"animations">> >>

ModelExts == {".glb", ".gltf", ".GLB"}
OtherExts == {".png"}
Exts == ModelExts \cup OtherExts

\* multer.diskStorage filename: `${id}-${file.fieldname}${ext}`
StoredName(id, fieldname, ext) == <<id, "-", fieldname, ext>>

Ext(seg) == seg[Len(seg)]

LowerExt(e) ==
  CASE e = ".GLB" -> ".glb"
    [] e = ".GLTF" -> ".gltf"
    [] OTHER -> e

\* filename.match(/\.(glb|gltf)$/i) on the decoded parameter: the match is on
\* the end of the string, that is on the last segment's extension.
\* (MatchesGlbOnly: a whitelist without gltf)
MatchesGlbOnly(filename) ==
  /\ filename # <<>>
  /\ LowerExt(Ext(filename[Len(filename)])) = ".glb"
MatchesModelExt(filename) ==
  /\ filename # <<>>
  /\ LowerExt(Ext(filename[Len(filename)])) \in {".glb", ".gltf"}

\* filename.endsWith('.glb'), case-sensitive
EndsWithGlb(filename) ==
  /\ filename # <<>>
  /\ Ext(filename[Len(filename)]) = ".glb"

\* path.join(base, param): the parameter's segments are appended and the
\* result normalised, each ".." removing the segment before it.
RECURSIVE PathJoin(_, _)
PathJoin(base, segs) ==
  IF segs = <<>> THEN base
  ELSE IF Head(segs) = DotDot
       THEN PathJoin(IF base = <<>> THEN <<>> ELSE SubSeq(base, 1, Len(base) - 1),
                     Tail(segs))
       ELSE PathJoin(Append(base, Head(segs)), Tail(segs))

\* ------------------------------------------------------------- file system
UploadNames ==
  {StoredName(id, "model", e) : id \in Ids, e \in Exts}
    \cup {StoredName(id, f, ".png") : id \in Ids, f \in {"audio", "props"}}

\* The names the optimizer's directory run takes: /\.(glb|gltf)$/i
ModelNames == {n \in UploadNames : MatchesModelExt(<<n>>)}

AllPaths ==
  {Append(UPLOADS_DIR, n) : n \in UploadNames}
    \cup {Append(OPTIMIZED_DIR, n) : n \in ModelNames}
    \cup {Append(STATIC_DIR, StaticModel)}

NoFile == [kind |-> "none", of |-> 0, idx |-> 0, size |-> 0]

Content(kind, of, idx, size) == [kind |-> kind, of |-> of, idx |-> idx, size |-> size]

VARIABLES
  fs,            \* path -> content, NoFile where nothing is stored
  dbCache,       \* the in-memory mirror: [loaded, recs]
  dbDisk,        \* data/db.json: [ok, recs]
  compression,   \* whether require('compression') succeeded
  alive,         \* the server process is running
  up,            \* the upload requests, by slot
  nUploads,      \* upload requests begun so far
  opt,           \* the optimizer run for each stored model name
  dl,            \* the delivery request being served
  api,           \* the last answer of GET /api/asset/:id
  nearby,        \* the request and the answer of GET /api/nearby
  form,          \* the numeric form fields of an upload and the record fields built
  sw,            \* the service worker: its caches, the network, the last fetch answered
  log            \* history: the answers given to upload requests

vars == <<fs, dbCache, dbDisk, compression, sw, form, nearby, alive, up, nUploads, opt, dl,
          api, log>>

\* fs.existsSync
Exists(f, path) == path \in DOMAIN f /\ f[path].kind # "none"

FileAt(f, path) == IF path \in DOMAIN f THEN f[path] ELSE NoFile

\* ------------------------------------------------------------ JS numbers
\* parseInt yields a number or NaN; arithmetic and comparison follow JS.
Num(v) == [nan |-> FALSE, v |-> v]
NaN == [nan |-> TRUE, v |-> 0]

\* A token of the Range header between the dashes: digits, nothing, or
\* something parseInt cannot read.
IntTok(v) == [k |-> "int", v |-> v]
EmptyTok == [k |-> "empty", v |-> 0]
JunkTok == [k |-> "junk", v |-> 0]

\* parseInt(token, 10)
ParseInt(tok) == IF tok.k = "int" THEN Num(tok.v) ELSE NaN

NoRange == [present |-> FALSE, p0 |-> EmptyTok, p1 |-> EmptyTok]
RangeHeader(p0, p1) == [present |-> TRUE, p0 |-> p0, p1 |-> p1]

\* const start = parseInt(parts[0], 10)
RangeStart(range) == ParseInt(range.p0)

\* const end = parts[1] ? parseInt(parts[1], 10) : fileSize - 1
\* (a non-empty string, "0" included, is truthy)
RangeEnd(range, fileSize) ==
  IF range.p1.k # "empty" THEN ParseInt(range.p1) ELSE Num(fileSize - 1)

\* const chunkSize = (end - start) + 1
ChunkSize(start, end) ==
  IF start.nan \/ end.nan THEN NaN ELSE Num((end.v - start.v) + 1)

\* fs.createReadStream(path, {start, end}) validates its options and throws
\* synchronously: both must be integers >= 0 and start <= end.
StreamThrows(start, end) ==
  \/ start.nan \/ end.nan
  \/ start.v < 0 \/ end.v < 0
  \/ start.v > end.v

\* ---------------------------------------------------------------- bodies
\* Bytes lo..hi of one content; hi < lo is the empty body. gz: the bytes went
\* through the compression middleware's gzip stream.
EmptyBody == [kind |-> "none", of |-> 0, idx |-> 0, lo |-> 0, hi |-> -1, gz |-> FALSE]

Window(file, lo, hi) ==
  IF lo > hi \/ file.kind = "none" THEN EmptyBody
  ELSE [kind |-> file.kind, of |-> file.of, idx |-> file.idx,
        lo |-> lo, hi |-> hi, gz |-> FALSE]

Min(a, b) == IF a < b THEN a ELSE b

\* What a read stream over [start, end] delivers: it stops at end of file.
ReadWindow(file, start, end) == Window(file, start, Min(end, file.size - 1))

\* The whole file, as a stream without options reads it (ReadAllButLast: a
\* stream that stops one byte early).
ReadAllButLast(file) == Window(file, 0, file.size - 2)
ReadAll(file) == Window(file, 0, file.size - 1)

Gzip(body) == [body EXCEPT !.gz = TRUE]

BodyLen(body) == IF body.hi < body.lo THEN 0 ELSE body.hi - body.lo + 1

\* ------------------------------------------------------------- responses
NoLen == [present |-> FALSE, n |-> Num(0)]
Len_(n) == [present |-> TRUE, n |-> n]
NoCRange == [present |-> FALSE, start |-> Num(0), end |-> Num(0), size |-> 0]
CRange(start, end, size) == [present |-> TRUE, start |-> start, end |-> end, size |-> size]

\* status 0: no status line was sent. ended: res.end() was called.
NoResp ==
  [status |-> 0, ctype |-> "", clen |-> NoLen, crange |-> NoCRange, xopt |-> "",
   cache |-> FALSE, ranges |-> FALSE, enc |-> "identity", body |-> EmptyBody,
   json |-> FALSE, ended |-> FALSE]

\* res.status(code).json({error: ...})
JsonError(code) == [NoResp EXCEPT !.status = code, !.json = TRUE, !.ended = TRUE]

\* The error-handling middleware, for an error that is no MulterError:
\* 500 with a JSON body. Once the headers are sent res.json throws, the error
\* reaches Express's final handler and the socket is destroyed.
ErrorMiddleware(headersSent) ==
  IF headersSent THEN [pc |-> "aborted", resp |-> NoResp]
  ELSE [pc |-> "done", resp |-> JsonError(500)]

\* The compression middleware, run when the headers are written: it encodes
\* the body when the module was loaded, its filter accepts the request (always,
\* for a path ending in .glb/.gltf), the client accepts gzip, and the
\* Content-Length is not below the threshold (NaN < threshold is false).
Compresses(loaded, path, acceptsGzip, clen) ==
  /\ loaded
  /\ MatchesModelExt(path)
  /\ acceptsGzip
  /\ ~(clen.present /\ ~clen.n.nan /\ clen.n.v < COMPRESS_THRESHOLD)

\* Content-Encoding is set and Content-Length removed.
Compressed(resp) == [resp EXCEPT !.enc = "gzip", !.clen = NoLen]

\* ------------------------------------------------- GET /uploads/:filename
DlIdle ==
  [pc |-> "idle", filename |-> <<>>, range |-> NoRange, gzip |-> FALSE,
   filePath |-> <<>>, fileSize |-> 0, start |-> Num(0), end |-> Num(0),
   resp |-> NoResp, quiet |-> TRUE, failure |-> "none",
   hasPrev |-> FALSE, prev |-> NoResp, origAt |-> NoFile, optAt |-> NoFile,
   handle |-> "none"]

DlFinished == {"idle", "done", "declined", "aborted", "timedout", "disconnected"}

OptimizedPath(filename) == PathJoin(OPTIMIZED_DIR, filename)
OriginalPath(filename) == PathJoin(UPLOADS_DIR, filename)

\* const filePath = fs.existsSync(optimizedPath) ? optimizedPath : originalPath
\* (SelectOriginalFirst: the preference the other way round)
SelectOriginalFirst(f, filename) ==
  IF Exists(f, OriginalPath(filename)) THEN OriginalPath(filename)
  ELSE OptimizedPath(filename)
SelectFile(f, filename) ==
  IF Exists(f, OptimizedPath(filename)) THEN OptimizedPath(filename)
  ELSE OriginalPath(filename)

\* Lines 79-93: the whitelist, the selection, the existence check and the
\* stat. origAt and optAt observe the two files as they were when the
\* handler looked (NoFile: not there). statFails: statSync throws (the file went away, an I/O error);
\* Express passes the exception to the error middleware.
Selected(req, filename, statFails) ==
  LET filePath == SelectFile(fs, filename)
      new == [req EXCEPT !.origAt = FileAt(fs, OriginalPath(filename)),
                         !.optAt = FileAt(fs, OptimizedPath(filename))]
  IN  IF ~MatchesModelExt(filename) THEN [new EXCEPT !.pc = "declined"]
      ELSE IF ~Exists(fs, filePath) THEN [new EXCEPT !.pc = "declined"]
      ELSE IF statFails
           THEN LET e == ErrorMiddleware(FALSE)
                IN  [new EXCEPT !.pc = e.pc, !.resp = e.resp,
                                !.filePath = filePath, !.failure = "stat"]
           ELSE [new EXCEPT !.pc = "selected", !.filePath = filePath,
                            !.fileSize = fs[filePath].size]

DeliverSelect(filename, statFails) ==
  /\ alive
  /\ dl.pc \in DlFinished
  /\ dl' = Selected([DlIdle EXCEPT !.filename = filename], filename, statFails)
  /\ UNCHANGED <<fs, dbCache, dbDisk, compression, sw, form, nearby, alive, up, nUploads, opt, api, log>>

\* The same request once more, the file system being as it was when the
\* previous answer was given: the previous answer is kept beside the new one.
DeliverAgain ==
  /\ alive
  /\ dl.pc = "done" /\ dl.quiet /\ dl.failure = "none"
  /\ dl' = Selected([DlIdle EXCEPT !.filename = dl.filename, !.range = dl.range,
                                   !.gzip = dl.gzip, !.hasPrev = TRUE,
                                   !.prev = dl.resp],
                    dl.filename, FALSE)
  /\ UNCHANGED <<fs, dbCache, dbDisk, compression, sw, form, nearby, alive, up, nUploads, opt, api, log>>

\* res.setHeader('Content-Type', filename.endsWith('.glb') ? ... : ...)
ContentType(filename) ==
  IF EndsWithGlb(filename) THEN "model/gltf-binary" ELSE "model/gltf+json"

\* res.setHeader('X-Optimized', fs.existsSync(optimizedPath) ? 'true' : 'false')
XOptimized(f, filename) ==
  IF Exists(f, OptimizedPath(filename)) THEN "true" ELSE "false"

\* Lines 96-99
BaseHeaders(f, filename) ==
  [NoResp EXCEPT !.cache = TRUE, !.ctype = ContentType(filename),
                 !.ranges = TRUE, !.xopt = XOptimized(f, filename)]

\* Lines 102-118: the headers, the Range branch, and the stream's creation,
\* for the request's Range header and Accept-Encoding (gzip: the client
\* accepts gzip). handle is the read stream's file descriptor: none, open or
\* closed. The optimizer is another process: it may have run since
\* DeliverSelect.
DeliverRespond(range, gzip) ==
  /\ alive
  /\ dl.pc = "selected"
  /\ dl.hasPrev => range = dl.range /\ gzip = dl.gzip
  /\ LET base == BaseHeaders(fs, dl.filename)
         start == RangeStart(range)
         end == RangeEnd(range, dl.fileSize)
         r206 == [base EXCEPT !.status = 206,
                              !.crange = CRange(start, end, dl.fileSize),
                              !.clen = Len_(ChunkSize(start, end))]
         r200 == [base EXCEPT !.status = 200, !.clen = Len_(Num(dl.fileSize))]
         plain == IF range.present THEN r206 ELSE r200
         sent == IF Compresses(compression, dl.filename, gzip, plain.clen)
                 THEN Compressed(plain) ELSE plain
         req == [dl EXCEPT !.range = range, !.gzip = gzip]
     IN  IF range.present /\ StreamThrows(start, end)
         THEN LET e == ErrorMiddleware(TRUE)
              IN  dl' = [req EXCEPT !.pc = e.pc, !.resp = e.resp, !.failure = "range"]
         ELSE dl' = [req EXCEPT !.pc = "streaming", !.resp = sent,
                                !.start = start, !.end = end,
                                !.handle = "open"]
  /\ UNCHANGED <<fs, dbCache, dbDisk, compression, sw, form, nearby, alive, up, nUploads, opt, api, log>>

\* process.on('uncaughtException', ...): the exception is logged and the
\* process goes on.
AfterUncaught(isAlive) == isAlive

\* The read stream delivers the selected window of the file as it is now and
\* pipe() ends the response; the stream closes its descriptor when it has
\* emitted 'end' (autoClose).
StreamBody ==
  LET file == FileAt(fs, dl.filePath)
      bytes == IF dl.range.present THEN ReadWindow(file, dl.start.v, dl.end.v)
               ELSE ReadAll(file)
  IN  IF dl.resp.enc = "gzip" THEN Gzip(bytes) ELSE bytes

StreamEnd ==
  /\ alive
  /\ dl.pc = "streaming"
  /\ dl' = [dl EXCEPT !.pc = "done", !.resp.body = StreamBody, !.resp.ended = TRUE,
                       !.handle = "closed"]
  /\ UNCHANGED <<fs, dbCache, dbDisk, compression, sw, form, nearby, alive, up, nUploads, opt, api, log>>

\* The read stream emits 'error' (open or read failed) and destroys itself,
\* which closes its descriptor. Nothing listens: the error is thrown as an
\* uncaught exception; pipe() does not end the response.
StreamError ==
  /\ alive
  /\ dl.pc = "streaming"
  /\ dl' = [dl EXCEPT !.pc = "hung", !.failure = "read", !.handle = "closed"]
  /\ alive' = AfterUncaught(alive)
  /\ UNCHANGED <<fs, dbCache, dbDisk, compression, sw, form, nearby, up, nUploads, opt, api, log>>

\* The client closes the connection before the transfer ends: res emits
\* 'close', pipe() unpipes the read stream and leaves it as it is, paused and
\* not destroyed. No handler of lines 103-118 listens to 'close' or to the
\* request's 'aborted'.
AfterUnpipe(handle) == handle

ClientDisconnect ==
  /\ alive
  /\ dl.pc = "streaming"
  /\ dl' = [dl EXCEPT !.pc = "disconnected", !.handle = AfterUnpipe(dl.handle)]
  /\ UNCHANGED <<fs, dbCache, dbDisk, compression, sw, form, nearby, alive, up, nUploads, opt, api, log>>

\* server.timeout: the idle socket of a response that never ends is destroyed.
SocketTimeout ==
  /\ alive
  /\ dl.pc = "hung"
  /\ dl' = [dl EXCEPT !.pc = "timedout"]
  /\ UNCHANGED <<fs, dbCache, dbDisk, compression, sw, form, nearby, alive, up, nUploads, opt, api, log>>

\* ------------------------------------------------------ the metadata store
NoRec == [id |-> "", model |-> <<>>, audio |-> <<>>, props |-> <<>>, n |-> 0]

EmptyStore == [i \in Ids |-> NoRec]

\* getDB(): the mirror, read from DB_FILE the first time. JSON.parse throws
\* on a file that a failed write left truncated.
GetDBThrows == ~dbCache.loaded /\ ~dbDisk.ok
GetDB == IF dbCache.loaded THEN dbCache.recs ELSE dbDisk.recs

\* ------------------------------------------------------------ POST /upload
Slots == {1, 2}

NoPart == [present |-> FALSE, ext |-> "", size |-> 0]
Part(ext, size) == [present |-> TRUE, ext |-> ext, size |-> size]

\* An upload request in a slot: its id and, once multer has run, req.files
\* (the extension of each stored file; "" for a field without a file).
UpIdle == [pc |-> "idle", id |-> "", n |-> 0, model |-> "", audio |-> "", props |-> <<>>]

\* The files of a request in the order multer stores them, each with the
\* field it came in and its position in that field.
RequestFiles(model, audio, props) ==
  (IF model.present
   THEN << [field |-> "model", ext |-> model.ext, size |-> model.size, idx |-> 1] >>
   ELSE <<>>)
  \o (IF audio.present
      THEN << [field |-> "audio", ext |-> audio.ext, size |-> audio.size, idx |-> 1] >>
      ELSE <<>>)
  \o [k \in 1..Len(props) |->
        [field |-> "props", ext |-> props[k].ext, size |-> props[k].size, idx |-> k]]

\* destination + filename of multer.diskStorage
StoredPath(id, file) == Append(UPLOADS_DIR, StoredName(id, file.field, file.ext))

StoredPaths(id, files) == {StoredPath(id, files[k]) : k \in 1..Len(files)}

RECURSIVE WriteFiles(_, _, _, _)
WriteFiles(f, files, id, n) ==
  IF files = <<>> THEN f
  ELSE LET file == Head(files)
       IN  WriteFiles([f EXCEPT ![StoredPath(id, file)] =
                          Content(file.field, n, file.idx, file.size)],
                      Tail(files), id, n)

\* fs.unlink of each path of `paths`
RemoveFiles(f, paths) == [p \in DOMAIN f |-> IF p \in paths THEN NoFile ELSE f[p]]

\* The errors multer can end a request with: a file over limits.fileSize, a
\* file in a field that is not listed or beyond its maxCount, or a failure of
\* the disk storage (no MulterError).
MulterErrors(files, nProps, extra, storageFails) ==
  {"LIMIT_FILE_SIZE" : k \in {k \in 1..Len(files) : files[k].size > UPLOAD_LIMIT}}
    \cup (IF extra \/ nProps > PROPS_MAX_COUNT THEN {"LIMIT_UNEXPECTED_FILE"} ELSE {})
    \cup (IF storageFails THEN {"EIO"} ELSE {})

\* The error-handling middleware (lines 257-278)
MulterErrorStatus(err) ==
  CASE err = "LIMIT_FILE_SIZE" -> 413
    [] err = "LIMIT_FILE_COUNT" -> 400
    [] err = "LIMIT_UNEXPECTED_FILE" -> 400
    [] OTHER -> 500

\* The answer to an upload request, as the history keeps it: the status, the
\* id, whether the request carried a model file, whether it carried other
\* files, multer's error if any,
\* whether saveDB's write failed, whether db[id] held a record already.
NoAnswer ==
  [status |-> 0, id |-> "", json |-> FALSE, hadModel |-> FALSE, others |-> FALSE,
   multerErr |-> "", saveFailed |-> FALSE, replaced |-> FALSE]

Answer(id, hadModel, others, status) ==
  [NoAnswer EXCEPT !.status = status, !.id = id, !.json = TRUE,
                   !.hadModel = hadModel, !.others = others]

Logged(l, answer) ==
  [answers |-> l.answers + 1,
   okCount |-> l.okCount + (IF answer.status = 200 THEN 1 ELSE 0),
   okIds |-> IF answer.status = 200 THEN l.okIds \cup {answer.id} ELSE l.okIds,
   last |-> answer]

\* Lines 141-143: req._uploadId = nanoid(8). nanoid draws the id at random;
\* nothing compares it with the ids in the store.
UploadBegin(r, id, max) ==
  /\ alive
  /\ up[r].pc = "idle"
  /\ nUploads < max
  /\ nUploads' = nUploads + 1
  /\ up' = [up EXCEPT ![r] = [UpIdle EXCEPT !.pc = "multer", !.id = id,
                                            !.n = nUploads + 1]]
  /\ UNCHANGED <<fs, dbCache, dbDisk, compression, sw, form, nearby, alive, opt, dl, api, log>>

\* Every write to the file system ends the quiet period of the delivery in
\* progress.
Disturbed(d) == [d EXCEPT !.quiet = FALSE]

\* upload.fields(...): multer reads the request's parts (model, audio, props,
\* extra: a file in a field that is not listed) and stores the files; on an
\* error it unlinks the files it had stored (any part of the request may have
\* been stored by then) and passes the error to the error middleware.
MulterStore(r, model, audio, props, extra, storageFails) ==
  /\ alive
  /\ up[r].pc = "multer"
  /\ LET u == up[r]
         files == RequestFiles(model, audio, props)
         errs == MulterErrors(files, Len(props), extra, storageFails)
     IN  IF errs = {}
         THEN /\ fs' = WriteFiles(fs, files, u.id, u.n)
              /\ up' = [up EXCEPT ![r] =
                          [u EXCEPT !.pc = "handler", !.model = model.ext,
                                    !.audio = audio.ext,
                                    !.props = [k \in 1..Len(props) |-> props[k].ext]]]
              /\ log' = log
         ELSE \E err \in errs, stored \in SUBSET StoredPaths(u.id, files) :
                /\ fs' = RemoveFiles(fs, stored)
                /\ up' = [up EXCEPT ![r] = UpIdle]
                /\ log' = Logged(log, [Answer(u.id, model.present,
                                                audio.present \/ props # <<>> \/ extra,
                                                MulterErrorStatus(err))
                                         EXCEPT !.multerErr = err])
  /\ dl' = IF fs' # fs THEN Disturbed(dl) ELSE dl
  /\ UNCHANGED <<dbCache, dbDisk, compression, sw, form, nearby, alive, opt, nUploads, api>>

\* The record the handler stores (lines 189-210), for the fields the model
\* keeps: the paths are the stored names under /uploads/.
NewRecord(u) ==
  [id |-> u.id,
   model |-> StoredName(u.id, "model", u.model),
   audio |-> IF u.audio # "" THEN StoredName(u.id, "audio", u.audio) ELSE <<>>,
   props |-> [k \in 1..Len(u.props) |-> StoredName(u.id, "props", u.props[k])],
   n |-> u.n]

\* if (modelSizeMB > 200) skip, with modelSizeMB = size / (1024 * 1024)
\* (SkipsOptimizeNever: the handler without the size check)
SkipsOptimizeNever(size) == FALSE
SkipsOptimize(size) == size > OPTIMIZE_LIMIT_MB * MB

OptNone == [pc |-> "none", of |-> 0]

\* saveDB's fs.writeFileSync opens DB_FILE truncating it: a write that fails
\* leaves the old text (the open failed) or a truncated one.
DiskAfterFailedSave(how) ==
  IF how = "unchanged" THEN dbDisk ELSE [ok |-> FALSE, recs |-> EmptyStore]

SaveOutcomes == {"ok", "unchanged", "truncated"}

\* if (!modelFile) return res.status(400)...
\* (ModelMissingNever: the handler without this check)
ModelMissingNever(u) == FALSE
ModelMissing(u) == u.model = ""

\* The final handler of POST /upload (lines 150-251), one synchronous run.
\* save: how saveDB's write ends; statFails: statSync of the stored model
\* throws although the file is there.
UploadHandler(r, save, statFails) ==
  /\ alive
  /\ up[r].pc = "handler"
  /\ LET u == up[r]
         rec == NewRecord(u)
         db == [GetDB EXCEPT ![u.id] = rec]
         modelPath == Append(UPLOADS_DIR, rec.model)
         isGlb == Ext(rec.model) = ".glb"
         statThrows == isGlb /\ (statFails \/ ~Exists(fs, modelPath))
         spawns == isGlb /\ ~statThrows /\ ~SkipsOptimize(fs[modelPath].size)
         others == u.audio # "" \/ u.props # <<>>
     IN  IF ModelMissing(u)
         THEN \* line 159
              /\ log' = Logged(log, Answer(u.id, u.model # "", others, 400))
              /\ UNCHANGED <<dbCache, dbDisk, opt>>
         ELSE IF GetDBThrows
         THEN \* getDB throws: caught at line 247
              /\ log' = Logged(log, Answer(u.id, u.model # "", others, 500))
              /\ UNCHANGED <<dbCache, dbDisk, opt>>
         ELSE \* db is the mirror itself: db[id] = ... writes into it, and
              \* saveDB assigns it before writing the file.
              /\ dbCache' = [loaded |-> TRUE, recs |-> db]
              /\ dbDisk' = IF save = "ok" THEN [ok |-> TRUE, recs |-> db]
                           ELSE DiskAfterFailedSave(save)
              /\ opt' = IF save = "ok" /\ isGlb /\ ~statThrows
                        THEN [opt EXCEPT ![rec.model] =
                                IF spawns THEN [pc |-> "spawned", of |-> 0]
                                ELSE [pc |-> "skipped", of |-> 0]]
                        ELSE opt
              /\ log' = Logged(log,
                          [Answer(u.id, u.model # "", others, IF save # "ok" \/ statThrows THEN 500 ELSE 200)
                             EXCEPT !.saveFailed = (save # "ok"),
                                    !.replaced = (GetDB[u.id] # NoRec)])
  /\ up' = [up EXCEPT ![r] = UpIdle]
  /\ UNCHANGED <<fs, compression, sw, form, nearby, alive, nUploads, dl, api>>

\* -------------------------------------------------- the optimizer child
OutputPath(name) == Append(OPTIMIZED_DIR, name)
InputPath(name) == Append(UPLOADS_DIR, name)

OptSizes == {2, 1500}

\* main() without a file argument: the optimizer run by hand over the upload
\* directory takes every file matching /\.(glb|gltf)$/i, one after the other.
\* The step is the start of optimizeModel for one of them, a file the server
\* started no child for.
OptBatch(name) ==
  /\ opt[name].pc \in {"none", "skipped"}
  /\ Exists(fs, InputPath(name))
  /\ opt' = [opt EXCEPT ![name] = [pc |-> "spawned", of |-> 0]]
  /\ UNCHANGED <<fs, dbCache, dbDisk, compression, sw, form, nearby, alive, up, nUploads, dl, api, log>>

\* child.on('error'): the child could not be spawned.
OptSpawnError(name) ==
  /\ opt[name].pc = "spawned"
  /\ opt' = [opt EXCEPT ![name].pc = "spawnerr"]
  /\ UNCHANGED <<fs, dbCache, dbDisk, compression, sw, form, nearby, alive, up, nUploads, dl, api, log>>

\* optimizeModel ends without writing: an output newer than the input is kept
\* (the model keeps no modification times: with an output present both
\* outcomes are allowed), or a step inside the try block fails and null is
\* returned (an input glTF-Transform cannot read).
OptSkip(name) ==
  /\ opt[name].pc = "spawned"
  /\ Exists(fs, OutputPath(name)) \/ Exists(fs, InputPath(name))
  /\ opt' = [opt EXCEPT ![name].pc = "exit0"]
  /\ UNCHANGED <<fs, dbCache, dbDisk, compression, sw, form, nearby, alive, up, nUploads, dl, api, log>>

\* io.read(inputPath): the child holds the input's content from here on.
OptRead(name) ==
  /\ opt[name].pc = "spawned"
  /\ Exists(fs, InputPath(name))
  /\ opt' = [opt EXCEPT ![name] = [pc |-> "read", of |-> fs[InputPath(name)].of]]
  /\ UNCHANGED <<fs, dbCache, dbDisk, compression, sw, form, nearby, alive, up, nUploads, dl, api, log>>

\* io.write(outputPath, document) is no atomic replacement: the file is
\* created or truncated, then filled.
OptWriteBegin(name) ==
  /\ opt[name].pc = "read"
  /\ fs' = [fs EXCEPT ![OutputPath(name)] = Content("partial", opt[name].of, 0, 1)]
  /\ opt' = [opt EXCEPT ![name].pc = "writing"]
  /\ dl' = Disturbed(dl)
  /\ UNCHANGED <<dbCache, dbDisk, compression, sw, form, nearby, alive, up, nUploads, api, log>>

OptWriteEnd(name, size) ==
  /\ opt[name].pc = "writing"
  /\ fs' = [fs EXCEPT ![OutputPath(name)] = Content("optimized", opt[name].of, 0, size)]
  /\ opt' = [opt EXCEPT ![name].pc = "exit0"]
  /\ dl' = Disturbed(dl)
  /\ UNCHANGED <<dbCache, dbDisk, compression, sw, form, nearby, alive, up, nUploads, api, log>>

\* io.write fails part of the way (disk full): the catch block logs it and the
\* run ends normally, the part written left in place.
OptWriteFail(name) ==
  /\ opt[name].pc = "writing"
  /\ opt' = [opt EXCEPT ![name].pc = "exit0"]
  /\ UNCHANGED <<fs, dbCache, dbDisk, compression, sw, form, nearby, alive, up, nUploads, dl, api, log>>

\* The child dies (out of memory, killed): child.on('close') sees a code
\* other than 0. What it had written stays.
OptCrash(name) ==
  /\ opt[name].pc \in {"spawned", "read", "writing"}
  /\ opt' = [opt EXCEPT ![name].pc = "exitN"]
  /\ UNCHANGED <<fs, dbCache, dbDisk, compression, sw, form, nearby, alive, up, nUploads, dl, api, log>>

\* ------------------------------------------------------ GET /api/asset/:id
NoApi ==
  [status |-> 0, id |-> "", recId |-> "", model |-> <<>>, modelSize |-> 0,
   isOptimized |-> FALSE, modelExists |-> FALSE, known |-> FALSE,
   stored |-> FALSE, optAt |-> NoFile, servedAt |-> NoFile]

\* if (modelFile.endsWith('.glb') && fs.existsSync(optimizedPath))
IsOptimized(f, modelFile) ==
  EndsWithGlb(<<modelFile>>) /\ Exists(f, Append(OPTIMIZED_DIR, modelFile))

\* modelSize = statSync(optimizedPath).size, else the original's if it is
\* there, else the initial 0.
ModelSize(f, modelFile) ==
  IF IsOptimized(f, modelFile) THEN f[Append(OPTIMIZED_DIR, modelFile)].size
  ELSE IF Exists(f, Append(UPLOADS_DIR, modelFile))
       THEN f[Append(UPLOADS_DIR, modelFile)].size
       ELSE 0

\* Lines 280-309. The answer keeps the record's id and model; modelExists is
\* an observation of the file system at the time of the answer: whether the
\* record's model path names a file under the upload root; known tells
\* whether an upload answered {id, url} with this id before the request;
\* stored, whether the store held a record under the id; optAt, the file
\* under the optimized root with the model's name; servedAt, the file the
\* delivery handler selects for the model's name at that moment.
GetAsset(id) ==
  /\ alive
  /\ LET asset == GetDB[id]
         originalPath == Append(UPLOADS_DIR, asset.model)
     IN  IF GetDBThrows
         THEN /\ api' = [NoApi EXCEPT !.status = 500, !.id = id,
                                      !.known = (id \in log.okIds)]
              /\ dbCache' = dbCache
         ELSE /\ dbCache' = [loaded |-> TRUE, recs |-> GetDB]
              /\ api' =
                   IF asset = NoRec
                   THEN [NoApi EXCEPT !.status = 404, !.id = id,
                                      !.known = (id \in log.okIds)]
                   ELSE [status |-> 200, id |-> id, recId |-> asset.id,
                         model |-> asset.model,
                         modelSize |-> ModelSize(fs, asset.model),
                         isOptimized |-> IsOptimized(fs, asset.model),
                         modelExists |-> Exists(fs, originalPath),
                         known |-> id \in log.okIds,
                         stored |-> TRUE,
                         optAt |-> FileAt(fs, Append(OPTIMIZED_DIR, asset.model)),
                         servedAt |-> FileAt(fs, SelectFile(fs, <<asset.model>>))]
  /\ UNCHANGED <<fs, dbDisk, compression, sw, form, nearby, alive, up, nUploads, opt, dl, log>>

\* --------------------------------------------------------- GET /api/nearby
\* HISTORICAL_SITES in the source's order, each with its id and its radius in
\* metres; MaxSites of them are kept.
MaxSites == 4

HISTORICAL_SITES ==
  SubSeq(<< [id |-> "rach-gam", radius |-> 2000],
            [id |-> "bach-dang", radius |-> 2000],
            [id |-> "chi-lang", radius |-> 2000],
            [id |-> "dong-da", radius |-> 1000],
            [id |-> "nhu-nguyet", radius |-> 2000],
            [id |-> "van-kiep", radius |-> 2000],
            [id |-> "lam-son", radius |-> 2000],
            [id |-> "hoa-lu", radius |-> 1500] >>, 1, MaxSites)

\* A query parameter as Express hands it over: undefined, the empty string,
\* a string parseFloat cannot read, or one it reads as a number.
QueryKinds == {"missing", "empty", "junk", "num"}

\* if (!lat || !lng): undefined and '' are falsy, every other string is not.
Falsy(q) == q \in {"missing", "empty"}

\* haversineDistance yields a real number of metres, NaN when a coordinate
\* is NaN. The model counts distances in tenths of a metre, and takes the
\* query point by its distance to each site.
Tenths == 10

HaversineDistance(lat, lng, d, i) ==
  IF lat = "num" /\ lng = "num" THEN Num(d[i]) ELSE NaN

\* Math.round of a distance in tenths, giving whole metres: halves go up.
MathRound(x) == IF x.nan THEN NaN ELSE Num((x.v + Tenths \div 2) \div Tenths)

\* dist <= site.radius, false for NaN
WithinRadius(x, radius) == ~x.nan /\ x.v <= radius * Tenths

\* The comparator (a, b) => a.distance - b.distance puts a before b when the
\* difference is negative; a NaN difference counts as 0.
ComesBefore(a, b) ==
  ~a.distance.nan /\ ~b.distance.nan /\ a.distance.v < b.distance.v

\* Array.prototype.sort is stable: an element goes in front of the first one
\* it comes before, behind every one it ties with.
RECURSIVE InsertSorted(_, _)
InsertSorted(x, s) ==
  IF s = <<>> THEN <<x>>
  ELSE IF ComesBefore(x, Head(s)) THEN <<x>> \o s
  ELSE <<Head(s)>> \o InsertSorted(x, Tail(s))

\* (Unsorted: the answer without the sort)
Unsorted(s) == s
RECURSIVE SortByDistance(_)
SortByDistance(s) ==
  IF s = <<>> THEN <<>>
  ELSE InsertSorted(s[Len(s)], SortByDistance(SubSeq(s, 1, Len(s) - 1)))

NearbyIdle ==
  [pc |-> "idle", lat |-> "missing", lng |-> "missing", dist |-> <<>>,
   status |-> 0, body |-> <<>>]

\* A request arrives: lat, lng and, for a numeric pair, the distances of the
\* query point to the sites.
NearbyRequest(lat, lng, d) ==
  /\ alive
  /\ nearby.pc = "idle"
  /\ nearby' = [NearbyIdle EXCEPT !.pc = "request", !.lat = lat, !.lng = lng,
                                  !.dist = d]
  /\ UNCHANGED <<fs, dbCache, dbDisk, compression, sw, form, alive, up, nUploads, opt, dl, api, log>>

\* Lines 354-367.
GetNearby ==
  /\ alive
  /\ nearby.pc = "request"
  /\ LET annotated ==
           [i \in 1..Len(HISTORICAL_SITES) |->
              LET site == HISTORICAL_SITES[i]
                  dist == HaversineDistance(nearby.lat, nearby.lng, nearby.dist, i)
              IN  [id |-> site.id, radius |-> site.radius,
                   distance |-> MathRound(dist),
                   isNear |-> WithinRadius(dist, site.radius)]]
     IN  nearby' =
           IF Falsy(nearby.lat) \/ Falsy(nearby.lng)
           THEN [nearby EXCEPT !.pc = "answered", !.status = 400]
           ELSE [nearby EXCEPT !.pc = "answered", !.status = 200,
                               !.body = SortByDistance(annotated)]
  /\ UNCHANGED <<fs, dbCache, dbDisk, compression, sw, form, alive, up, nUploads, opt, dl, api, log>>

\* ------------------------------------- POST /upload: the numeric fields
\* A text field of the form: not sent, a text no number starts, or a decimal
\* number, counted in tenths.
AbsentField == [k |-> "absent", v |-> 0]
JunkField == [k |-> "junk", v |-> 0]
NumField(v) == [k |-> "num", v |-> v]

\* parseFloat(req.body.x): the number read, NaN for undefined or a text that
\* starts with no number.
ParseFloat(tok) == IF tok.k = "num" THEN Num(tok.v) ELSE NaN

\* parseInt(req.body.x): the digits up to the decimal point, that is the
\* number cut off towards zero.
ParseIntField(tok) ==
  IF tok.k = "num"
  THEN Num(IF tok.v >= 0 THEN (tok.v \div Tenths) * Tenths
           ELSE -(((-tok.v) \div Tenths) * Tenths))
  ELSE NaN

\* x || d: NaN and 0 are falsy.
OrDefault(x, d) == IF x.nan \/ x.v = 0 THEN d ELSE x.v

MODEL_Y_DEFAULT == 0
CHARACTER_HEIGHT_DEFAULT == 170
STAT_DEFAULT == 80

\* characterStats: strength, strategy, leadership, defense; MaxStats of them
\* are kept.
MaxStats == 2

StatNames == SubSeq(<<"strength", "strategy", "leadership", "defense">>, 1, MaxStats)

FormIdle ==
  [pc |-> "idle", modelY |-> AbsentField, characterHeight |-> AbsentField,
   stats |-> [k \in 1..MaxStats |-> AbsentField],
   rec |-> [modelY |-> 0, characterHeight |-> 0,
            characterStats |-> [k \in 1..MaxStats |-> 0]]]

\* req.body as multer leaves it.
FormRequest(modelY, characterHeight, stats) ==
  /\ alive
  /\ form.pc = "idle"
  /\ form' = [FormIdle EXCEPT !.pc = "request", !.modelY = modelY,
                              !.characterHeight = characterHeight,
                              !.stats = stats]
  /\ UNCHANGED <<fs, dbCache, dbDisk, compression, sw, nearby, alive, up, nUploads, opt, dl, api, log>>

\* Lines 196, 202 and 203-208 of the record built at lines 189-210; the
\* values are in tenths.
NumericFields ==
  /\ alive
  /\ form.pc = "request"
  /\ form' = [form EXCEPT
       !.pc = "built",
       !.rec = [modelY |-> OrDefault(ParseFloat(form.modelY),
                                     MODEL_Y_DEFAULT * Tenths),
                characterHeight |-> OrDefault(ParseFloat(form.characterHeight),
                                              CHARACTER_HEIGHT_DEFAULT * Tenths),
                characterStats |->
                  [k \in 1..MaxStats |->
                     OrDefault(ParseIntField(form.stats[k]), STAT_DEFAULT * Tenths)]]]
  /\ UNCHANGED <<fs, dbCache, dbDisk, compression, sw, nearby, alive, up, nUploads, opt, dl, api, log>>

\* ------------------------------------------------- the service worker
\* A URL by what the fetch listener tests: the host, the first segment of
\* the path and the extension the path ends with.
Url(host, dir, ext) == [host |-> host, dir |-> dir, ext |-> ext]

\* STATIC_ASSETS: '/', '/viewer.html' and the CDN scripts, one of them kept.
STATIC_ASSETS ==
  {Url("self", "", ""), Url("self", "", ".html"), Url("cdn.jsdelivr.net", "npm", ".js")}

\* url.pathname.match(/\.(glb|gltf|fbx)$/i)
IsModelUrl(u) == LowerExt(u.ext) \in {".glb", ".gltf", ".fbx"}

\* url.hostname === 'cdn.jsdelivr.net' || url.hostname === 'www.gstatic.com'
IsCdnUrl(u) == u.host \in {"cdn.jsdelivr.net", "www.gstatic.com"}

\* url.pathname.startsWith('/api/')
IsApiUrl(u) == u.dir = "api"

Request(u, method) == [url |-> u, method |-> method]

NoFetch ==
  [req |-> Request(Url("self", "", ""), ""), branch |-> "", online |-> FALSE,
   hit |-> FALSE, result |-> ""]

SwIdle ==
  [pc |-> "registered", online |-> TRUE, static |-> {}, models |-> {},
   old |-> TRUE, last |-> NoFetch]

\* cache.match / caches.match: a stored response for the request; only GET
\* requests are stored and matched.
CacheMatch(cache, req) == req.method = "GET" /\ req.url \in cache

\* The network comes and goes.
SwNetwork ==
  /\ sw' = [sw EXCEPT !.online = ~sw.online]
  /\ UNCHANGED <<fs, dbCache, dbDisk, compression, nearby, form, alive, up, nUploads, opt, dl, api, log>>

\* 'install': cache.addAll(STATIC_ASSETS) stores all of them or, when a
\* fetch fails, none (the rejection is logged).
SwInstall ==
  /\ sw.pc = "registered"
  /\ sw' = [sw EXCEPT !.pc = "installed",
                      !.static = IF sw.online THEN STATIC_ASSETS ELSE {}]
  /\ UNCHANGED <<fs, dbCache, dbDisk, compression, nearby, form, alive, up, nUploads, opt, dl, api, log>>

\* 'activate': every cache but STATIC_CACHE and MODEL_CACHE is deleted.
SwActivate ==
  /\ sw.pc = "installed"
  /\ sw' = [sw EXCEPT !.pc = "active", !.old = FALSE]
  /\ UNCHANGED <<fs, dbCache, dbDisk, compression, nearby, form, alive, up, nUploads, opt, dl, api, log>>

\* fetch(event.request): a response when the network is up (ok tells a 2xx
\* status), a rejection when it is down.
\* Lines 50-71: model files, cache first.
FetchModel(req, ok) ==
  LET hit == CacheMatch(sw.models, req)
  IN  [sw EXCEPT
         !.models = IF ~hit /\ sw.online /\ ok THEN sw.models \cup {req.url}
                    ELSE sw.models,
         !.last = [req |-> req, branch |-> "model", online |-> sw.online,
                   hit |-> hit,
                   result |-> IF hit THEN "cached"
                              ELSE IF ~sw.online THEN "503"
                              ELSE IF ok THEN "network-ok" ELSE "network-error-status"]]

\* Lines 74-86: CDN scripts, cache first; no catch around the fetch.
FetchCdn(req, ok) ==
  LET hit == CacheMatch(sw.static, req)
  IN  [sw EXCEPT
         !.static = IF ~hit /\ sw.online /\ ok THEN sw.static \cup {req.url}
                    ELSE sw.static,
         !.last = [req |-> req, branch |-> "cdn", online |-> sw.online,
                   hit |-> hit,
                   result |-> IF hit THEN "cached"
                              ELSE IF ~sw.online THEN "rejected"
                              ELSE IF ok THEN "network-ok" ELSE "network-error-status"]]

\* caches.match(event.request) || new Response('{}', ...): caches.match
\* returns a promise, and a promise is truthy, so the right-hand side is never
\* taken; the promise resolves to the stored response or to undefined.
MatchOrResponse(hit) == IF hit THEN "cached" ELSE "undefined"

\* Lines 89-98: API calls, network first.
FetchApi(req, ok) ==
  LET hit == CacheMatch(sw.static \cup sw.models, req)
  IN  [sw EXCEPT
         !.last = [req |-> req, branch |-> "api", online |-> sw.online,
                   hit |-> hit,
                   result |-> IF sw.online
                              THEN IF ok THEN "network-ok" ELSE "network-error-status"
                              ELSE MatchOrResponse(hit)]]

\* Lines 101-109: everything else, network first; an ok answer to a GET is
\* stored in STATIC_CACHE.
FetchOther(req, ok) ==
  LET hit == CacheMatch(sw.static \cup sw.models, req)
  IN  [sw EXCEPT
         !.static = IF sw.online /\ ok /\ req.method = "GET"
                    THEN sw.static \cup {req.url} ELSE sw.static,
         !.last = [req |-> req, branch |-> "other", online |-> sw.online,
                   hit |-> hit,
                   result |-> IF sw.online
                              THEN IF ok THEN "network-ok" ELSE "network-error-status"
                              ELSE IF hit THEN "cached" ELSE "undefined"]]

\* The fetch listener, lines 46-110: the first branch whose test holds.
SwFetch(req, ok) ==
  /\ sw.pc = "active"
  /\ sw' = IF IsModelUrl(req.url) THEN FetchModel(req, ok)
           ELSE IF IsCdnUrl(req.url) THEN FetchCdn(req, ok)
           ELSE IF IsApiUrl(req.url) THEN FetchApi(req, ok)
           ELSE FetchOther(req, ok)
  /\ UNCHANGED <<fs, dbCache, dbDisk, compression, nearby, form, alive, up, nUploads, opt, dl, api, log>>

\* ------------------------------------------------------------------ inputs
ModelParts ==
  {NoPart, Part(".glb", 3), Part(".gltf", 3), Part(".glb", OPTIMIZE_LIMIT_MB * MB + 1)}

AudioParts == {NoPart, Part(".png", UPLOAD_LIMIT + 1)}

PropSeqs ==
  UNION {[1..k -> {Part(".png", 9)}] : k \in 0..MaxProps}

Filenames ==
  {<<StoredName("a", "model", e)>> : e \in Exts}
    \cup {<<DotDot, StoredName("a", "model", ".glb")>>,
          <<DotDot, DotDot, <<"animations">>, StaticModel>>}

Ranges ==
  {NoRange}
    \cup {RangeHeader(IntTok(s), e) :
            s \in {0, 1, 3}, e \in {EmptyTok, IntTok(0), IntTok(2), IntTok(1999)}}

\* ------------------------------------------------------------ the system
Init ==
  /\ fs = [p \in AllPaths |->
             IF p = Append(STATIC_DIR, StaticModel)
             THEN Content("static", 0, 0, 900) ELSE NoFile]
  /\ dbCache = [loaded |-> FALSE, recs |-> EmptyStore]
  /\ dbDisk = [ok |-> TRUE, recs |-> EmptyStore]
  /\ compression \in BOOLEAN
  /\ alive = TRUE
  /\ up = [r \in Slots |-> UpIdle]
  /\ nUploads = 0
  /\ opt = [n \in ModelNames |-> OptNone]
  /\ dl = DlIdle
  /\ api = NoApi
  /\ nearby = NearbyIdle
  /\ form = FormIdle
  /\ sw = SwIdle
  /\ log = [answers |-> 0, okCount |-> 0, okIds |-> {}, last |-> NoAnswer]

\* The requests of a run are drawn from the sets a specification names: the
\* same actions, over a wide or a narrow choice of inputs.
Upload(max, slots, ids, models, audios, propSeqs, extras, faults) ==
  \/ \E r \in slots, id \in ids : UploadBegin(r, id, max)
  \/ \E r \in slots, model \in models, audio \in audios, props \in propSeqs,
        extra \in extras, storageFails \in faults :
       MulterStore(r, model, audio, props, extra, storageFails)
  \/ \E r \in slots, save \in (IF TRUE \in faults THEN SaveOutcomes ELSE {"ok"}),
        statFails \in faults :
       UploadHandler(r, save, statFails)

Optimizer ==
  \E name \in ModelNames :
    \/ OptSpawnError(name)
    \/ OptSkip(name)
    \/ OptRead(name)
    \/ OptWriteBegin(name)
    \/ \E size \in OptSizes : OptWriteEnd(name, size)
    \/ OptWriteFail(name)
    \/ OptCrash(name)

Delivery(filenames, ranges) ==
  \/ \E filename \in filenames, statFails \in BOOLEAN : DeliverSelect(filename, statFails)
  \/ DeliverAgain
  \/ \E range \in ranges, gzip \in BOOLEAN : DeliverRespond(range, gzip)
  \/ StreamEnd
  \/ StreamError
  \/ ClientDisconnect
  \/ SocketTimeout

Api == \E id \in Ids : GetAsset(id)

\* The store's side: every kind of upload request, in two slots, and the
\* asset API.
Next ==
  \/ Upload(MaxUploads, Slots, Ids, ModelParts, AudioParts, PropSeqs, BOOLEAN, BOOLEAN)
  \/ Api

Spec == Init /\ [][Next]_vars

\* The delivery's side: every kind of delivery request, over the files that
\* MaxModels uploads of a model under one id and the optimizer leave.
NextDelivery ==
  \/ Upload(MaxModels, {1}, {"a"},
            {Part(".glb", 3), Part(".glb", 2000), Part(".gltf", 3), Part(".GLB", 3),
             Part(".glb", OPTIMIZE_LIMIT_MB * MB + 1)},
            {NoPart}, {<<>>}, {FALSE}, {FALSE})
  \/ Optimizer
  \/ Delivery(Filenames, Ranges)

SpecDelivery == Init /\ [][NextDelivery]_vars

\* The distances a query point can have to a site, in tenths of a metre:
\* next to the site, and around the two radii of the sites kept.
QueryDistances == {5, 9996, 10004, 20000, 20004, 20005}

Nearby ==
  \/ \E d \in [1..MaxSites -> QueryDistances] : NearbyRequest("num", "num", d)
  \/ \E lat, lng \in QueryKinds :
       /\ ~(lat = "num" /\ lng = "num")
       /\ NearbyRequest(lat, lng, [i \in 1..MaxSites |-> 0])
  \/ GetNearby

\* GET /api/nearby alone: the handler reads no state of the server.
SpecNearby == Init /\ [][Nearby]_vars

\* The texts a numeric field is sent with: none, no number, 0, 0.5, -2.5
\* and 90.
FieldTokens ==
  {AbsentField, JunkField, NumField(0), NumField(5), NumField(-25), NumField(900)}

Fields ==
  \/ \E modelY, characterHeight \in FieldTokens,
        stats \in [1..MaxStats -> FieldTokens] :
       FormRequest(modelY, characterHeight, stats)
  \/ NumericFields

\* The record's numeric fields alone: they depend on the form's texts only.
SpecFields == Init /\ [][Fields]_vars

\* The optimizer's start: one upload of a model of a size around the limit,
\* with the faults of the handler, and the optimizer child.
OptimizeParts ==
  {Part(".glb", 3), Part(".glb", 50 * MB + 1), Part(".glb", OPTIMIZE_LIMIT_MB * MB),
   Part(".glb", OPTIMIZE_LIMIT_MB * MB + 1), Part(".gltf", 3), Part(".GLB", 3)}

NextOptimize ==
  \/ Upload(MaxModels, {1}, Ids, OptimizeParts, {NoPart}, {<<>>}, {FALSE}, BOOLEAN)
  \/ Optimizer

SpecOptimize == Init /\ [][NextOptimize]_vars

\* The requests a page under the worker makes: /, a CDN script,
\* /api/asset/<id>, an /api/ path ending in .glb, two model files, /view/<id>
\* and the upload.
SwRequests ==
  {Request(u, "GET") :
     u \in {Url("self", "", ""), Url("cdn.jsdelivr.net", "npm", ".js"),
            Url("self", "api", ""), Url("self", "api", ".glb"),
            Url("self", "uploads", ".glb"), Url("self", "uploads", ".GLB"),
            Url("self", "view", "")}}
    \cup {Request(Url("self", "upload", ""), "POST")}

Worker ==
  \/ SwNetwork
  \/ SwInstall
  \/ SwActivate
  \/ \E req \in SwRequests, ok \in BOOLEAN : SwFetch(req, ok)

\* The service worker alone, in the browser.
SpecWorker == Init /\ [][Worker]_vars

\* The asset API's side: one upload of a model, the optimizer started by the
\* server or run over the upload directory, and GET /api/asset/:id.
NextAsset ==
  \/ Upload(MaxModels, {1}, {"a"},
            {Part(".glb", 3), Part(".gltf", 3), Part(".GLB", 3)},
            {NoPart}, {<<>>}, {FALSE}, {FALSE})
  \/ Optimizer
  \/ \E name \in ModelNames : OptBatch(name)
  \/ Api

SpecAsset == Init /\ [][NextAsset]_vars

\* ================================================================ claims
\* The delivery has answered: the response was ended by the stream, with no
\* failure, and no file was written between the selection and now.
Answered == dl.pc = "done" /\ dl.failure = "none" /\ dl.quiet

SelectedFile == FileAt(fs, dl.filePath)

\* The conditions under which the compression middleware encodes a response
\* whose identity length is n.
Encoded(n) == compression /\ dl.gzip /\ n >= COMPRESS_THRESHOLD

RangeE == IF dl.range.p1.k = "empty" THEN SelectedFile.size - 1 ELSE dl.range.p1.v

InsideRange ==
  /\ dl.range.present
  /\ dl.range.p0.k = "int" /\ dl.range.p1.k \in {"int", "empty"}
  /\ 0 <= dl.range.p0.v /\ dl.range.p0.v <= RangeE
  /\ RangeE <= SelectedFile.size - 1

\* C2: such a request is answered 206 with Content-Range 'bytes s-E/N',
\* Content-Length E - s + 1 and exactly the bytes [s, E] of the selected file
\* as its body.
C2_Range ==
  (Answered /\ InsideRange) =>
    /\ dl.resp.status = 206
    /\ dl.resp.crange = CRange(Num(dl.range.p0.v), Num(RangeE), SelectedFile.size)
    /\ dl.resp.clen = Len_(Num(RangeE - dl.range.p0.v + 1))
    /\ dl.resp.body = Window(SelectedFile, dl.range.p0.v, RangeE)

\* The body is made of bytes of `file` (an empty body is made of no bytes).
BodyOf(body, file) ==
  BodyLen(body) > 0 =>
    body.kind = file.kind /\ body.of = file.of /\ body.idx = file.idx

\* C3: when path.join(optimized root, f) exists the optimized file's bytes are
\* served and X-Optimized is 'true'; when it does not and path.join(upload
\* root, f) exists the original's bytes are served and X-Optimized is
\* 'false'; and the same request repeated with the file system unchanged is
\* given the same status, headers and body.
C3_VariantSelection ==
  Answered =>
    /\ Exists(fs, OptimizedPath(dl.filename)) =>
         /\ dl.filePath = OptimizedPath(dl.filename)
         /\ BodyOf(dl.resp.body, fs[OptimizedPath(dl.filename)])
         /\ dl.resp.xopt = "true"
    /\ (~Exists(fs, OptimizedPath(dl.filename)) /\ Exists(fs, OriginalPath(dl.filename))) =>
         /\ dl.filePath = OriginalPath(dl.filename)
         /\ BodyOf(dl.resp.body, fs[OriginalPath(dl.filename)])
         /\ dl.resp.xopt = "false"
    /\ dl.hasPrev => dl.resp = dl.prev

C3_Witness ==
  /\ Answered /\ dl.hasPrev
  /\ Exists(fs, Append(UPLOADS_DIR, StoredName("a", "model", ".glb")))
  /\ dl.filename = <<StoredName("a", "model", ".glb")>>
  /\ dl.resp.xopt = "true"
  /\ dl.resp.body.kind = "optimized"

\* A request for a model file by its plain name, the original being under the
\* upload root when the handler looked, with no Range header or a range inside
\* the original, and no I/O fault: the request is over.
OriginalE == IF dl.range.p1.k = "empty" THEN dl.origAt.size - 1 ELSE dl.range.p1.v

PlainRequestOver ==
  /\ dl.pc \in {"done", "aborted", "declined"}
  /\ dl.failure \notin {"stat", "read"}
  /\ Len(dl.filename) = 1 /\ MatchesModelExt(dl.filename)
  /\ dl.origAt # NoFile
  /\ dl.range.present =>
       /\ dl.range.p0.k = "int" /\ dl.range.p1.k \in {"int", "empty"}
       /\ 0 <= dl.range.p0.v /\ dl.range.p0.v <= OriginalE
       /\ OriginalE <= dl.origAt.size - 1

\* C4: whatever the optimizer of the file is doing or has done, such a
\* request is answered 200 or 206 with bytes of the model (the complete
\* original or a completely written optimized variant), and with the original
\* when there was no optimized sibling.
C4_DeliveryIndependent ==
  PlainRequestOver =>
    /\ dl.pc = "done"
    /\ dl.resp.status \in {200, 206}
    /\ BodyLen(dl.resp.body) > 0
    /\ dl.resp.body.kind \in {"model", "optimized"}
    /\ dl.optAt = NoFile =>
         dl.filePath = OriginalPath(dl.filename) /\ BodyOf(dl.resp.body, dl.origAt)

\* The path lies directly under root.
DirectlyUnder(path, root) ==
  /\ Len(path) = Len(root) + 1
  /\ SubSeq(path, 1, Len(root)) = root
  /\ path[Len(path)] \notin {DotDot}

\* C5: the file the handler stats and streams lies directly under the upload
\* root or the optimized root.
C5_NoTraversal ==
  dl.pc \in {"selected", "streaming", "hung", "done", "aborted", "timedout"} =>
    \/ DirectlyUnder(dl.filePath, UPLOADS_DIR)
    \/ DirectlyUnder(dl.filePath, OPTIMIZED_DIR)

\* C10: after a stat failure or a read-stream error the process is alive and
\* the failed request's response has been ended.
C10_FailureClosed ==
  dl.failure \in {"stat", "read"} => alive /\ dl.resp.ended

\* C11: a request that has ended (completed, failed, or left by its client)
\* has no read stream still open.
C11_HandlesReleased ==
  dl.pc \in {"done", "aborted", "timedout", "disconnected"} => dl.handle # "open"

\* The extension of the requested name, letter case set aside.
RequestedExt == LowerExt(Ext(dl.filename[Len(dl.filename)]))

\* C12: an answer of the handler to a .glb name, in any letter case, has
\* Content-Type model/gltf-binary, an answer to a .gltf name has
\* model/gltf+json, and both the 200 and the 206 answer carry the 30-day
\* immutable Cache-Control and Accept-Ranges: bytes.
C12_ContentType ==
  dl.resp.status \in {200, 206} =>
    /\ RequestedExt = ".glb" => dl.resp.ctype = "model/gltf-binary"
    /\ RequestedExt = ".gltf" => dl.resp.ctype = "model/gltf+json"
    /\ dl.resp.cache /\ dl.resp.ranges

\* C13: the handler declines exactly when the requested name does not end in
\* .glb or .gltf or neither path.join(optimized root, name) nor
\* path.join(upload root, name) was a file when it looked; a declined request
\* has no status and no header set by the handler.
C13_Declines ==
  dl.pc # "idle" =>
    /\ dl.pc = "declined" <=>
         \/ RequestedExt \notin {".glb", ".gltf"}
         \/ dl.origAt = NoFile /\ dl.optAt = NoFile
    /\ dl.pc = "declined" => dl.resp = NoResp

\* A .gltf name is asked for while only the .glb of the upload is stored.
C13_Witness ==
  /\ dl.pc = "declined"
  /\ dl.filename = <<StoredName("a", "model", ".gltf")>>
  /\ Exists(fs, Append(UPLOADS_DIR, StoredName("a", "model", ".glb")))
  /\ dl.origAt = NoFile /\ dl.optAt = NoFile

\* C6: a handler run whose store write fails leaves the mirror and the disk
\* copy as they were.
C6_FailedWriteLeavesStore ==
  [][(log'.answers = log.answers + 1 /\ log'.last.saveFailed)
       => (GetDB' = GetDB /\ dbDisk' = dbDisk)]_vars

Records == {i \in Ids : GetDB[i] # NoRec}

\* C7: no upload replaces an existing record, and the store holds as many
\* records as uploads were answered {id, url}.
C7_IdsUnique ==
  /\ log.last.status = 200 => ~log.last.replaced
  /\ Cardinality(Records) = log.okCount

\* C8: GET /api/asset/<id> for an id that an upload was answered with answers
\* 200 with the record of that id, whose model path names the existing file
\* '<id>-model<ext>' under the upload root.
C8_UploadedResolves ==
  api.known =>
    /\ api.status = 200
    /\ api.recId = api.id
    /\ \E e \in ModelExts : api.model = StoredName(api.id, "model", e)
    /\ api.modelExists

UploadAnswered == log.last.status # 0

\* C9 as the specification states it: a request without a model file is
\* answered 400 with a JSON error body.
C9_Original ==
  (UploadAnswered /\ ~log.last.hadModel) =>
    log.last.status = 400 /\ log.last.json

\* C9 amended: a request without a model file is never answered {id, url}; it
\* is answered 400 with a JSON error body whenever multer passes it to the
\* handler, whatever other files it carries; when multer rejects it, the error
\* middleware answers 413 for a file over the size limit, 400 for a file in an
\* unexpected field and 500 for a storage failure, with a JSON error body too.
C9_NoModel ==
  (UploadAnswered /\ ~log.last.hadModel) =>
    /\ log.last.json
    /\ log.last.status # 200
    /\ ~log.last.saveFailed /\ ~log.last.replaced
    /\ log.last.multerErr = "" => log.last.status = 400
    /\ log.last.multerErr = "LIMIT_FILE_SIZE" => log.last.status = 413
    /\ log.last.multerErr = "LIMIT_UNEXPECTED_FILE" => log.last.status = 400
    /\ log.last.multerErr = "EIO" => log.last.status = 500

\* Props but no model: multer passes the request on, the handler answers 400.
C9_Witness ==
  /\ UploadAnswered /\ ~log.last.hadModel /\ log.last.others
  /\ log.last.multerErr = ""
  /\ log.last.status = 400 /\ log.last.json

\* ---- C14
\* C14: GET /api/asset/:id answers 404 exactly when the store holds no record
\* under the id; a 200 answer carries the record, isOptimized is true exactly
\* when an optimized variant of the record's model exists, and modelSize is
\* the size of the file GET /uploads would serve for the model.
C14_AssetAnswer ==
  api.status # 0 =>
    /\ api.status = 404 <=> ~api.stored
    /\ api.status = 200 =>
         /\ api.recId = api.id
         /\ api.isOptimized <=> api.optAt # NoFile
         /\ api.modelSize = api.servedAt.size

\* ---- C15
SiteIndex(id) == CHOOSE i \in 1..MaxSites : HISTORICAL_SITES[i].id = id

EachSiteOnce ==
  /\ Len(nearby.body) = MaxSites
  /\ \A i \in 1..MaxSites :
       Cardinality({k \in 1..Len(nearby.body) :
                      nearby.body[k].id = HISTORICAL_SITES[i].id}) = 1

SortedByReported ==
  \A k \in 1..(Len(nearby.body) - 1) :
    nearby.body[k].distance.v <= nearby.body[k + 1].distance.v

NumericQuery == nearby.lat = "num" /\ nearby.lng = "num"

\* The claim as stated: 400 when lat or lng is missing; for a numeric query
\* every site once, ascending by distance, and isNear exactly when the
\* distance reported for the site is within its radius.
C15_Original ==
  nearby.pc = "answered" =>
    /\ nearby.status = 400 <=> Falsy(nearby.lat) \/ Falsy(nearby.lng)
    /\ NumericQuery =>
         /\ nearby.status = 200
         /\ EachSiteOnce
         /\ SortedByReported
         /\ \A k \in 1..Len(nearby.body) :
              nearby.body[k].isNear <=>
                nearby.body[k].distance.v <= nearby.body[k].radius

\* C15: GET /api/nearby answers 400 exactly when lat or lng is missing or
\* empty, and 200 with every site exactly once otherwise. For numeric lat and
\* lng the sites are in ascending order of the reported distance, which is
\* the distance rounded to whole metres, and isNear is true exactly when the
\* unrounded distance is at most the site's radius. For a lat or lng that is
\* no number every reported distance is NaN, every isNear is false and the
\* sites keep the order of the list.
C15_Nearby ==
  nearby.pc = "answered" =>
    /\ nearby.status = 400 <=> Falsy(nearby.lat) \/ Falsy(nearby.lng)
    /\ nearby.status # 400 =>
         /\ nearby.status = 200
         /\ EachSiteOnce
    /\ NumericQuery =>
         /\ SortedByReported
         /\ \A k \in 1..Len(nearby.body) :
              LET d == nearby.dist[SiteIndex(nearby.body[k].id)]
                  m == nearby.body[k].distance.v
              IN  /\ ~nearby.body[k].distance.nan
                  /\ m * Tenths - Tenths \div 2 <= d
                  /\ d < m * Tenths + Tenths \div 2
                  /\ nearby.body[k].isNear <=> d <= nearby.body[k].radius * Tenths
    /\ nearby.status = 200 /\ ~NumericQuery =>
         \A k \in 1..Len(nearby.body) :
           /\ nearby.body[k].distance.nan
           /\ ~nearby.body[k].isNear
           /\ nearby.body[k].id = HISTORICAL_SITES[k].id

\* A numeric query whose answer is reordered, with a site reported at exactly
\* its radius and not near: its distance is a fraction of a metre beyond.
C15_Witness ==
  /\ nearby.pc = "answered"
  /\ nearby.status = 200
  /\ NumericQuery
  /\ nearby.body[1].id # HISTORICAL_SITES[1].id
  /\ \E k \in 1..Len(nearby.body) :
       /\ nearby.body[k].distance.v = nearby.body[k].radius
       /\ ~nearby.body[k].isNear

\* ---- C16
\* C16: once every upload request has finished, each id that an upload was
\* answered {id, url} for has its record in the in-memory mirror and the
\* same record in the on-disk copy.
C16_NoLostUpdate ==
  (\A r \in Slots : up[r].pc = "idle") =>
    \A id \in log.okIds :
      /\ dbCache.loaded
      /\ dbCache.recs[id] # NoRec
      /\ dbDisk.recs[id] = dbCache.recs[id]

\* ---- C17
\* The stored value the claim asks for: the default for NaN, the number
\* otherwise.
DefaultIfNaN(x, d) == IF x.nan THEN d ELSE x.v

\* C17: a numeric record field takes its default exactly when the form field
\* is absent or does not parse as a number (modelY 0, characterHeight 170,
\* each stat 80); a value that parses as a number is stored as that number.
C17_Defaults ==
  form.pc = "built" =>
    /\ form.rec.modelY =
         DefaultIfNaN(ParseFloat(form.modelY), MODEL_Y_DEFAULT * Tenths)
    /\ form.rec.characterHeight =
         DefaultIfNaN(ParseFloat(form.characterHeight),
                      CHARACTER_HEIGHT_DEFAULT * Tenths)
    /\ \A k \in 1..MaxStats :
         form.rec.characterStats[k] =
           DefaultIfNaN(ParseIntField(form.stats[k]), STAT_DEFAULT * Tenths)

\* ---- C18
\* An optimizer child is started for the name in this step.
Spawned(name) == opt[name].pc # "spawned" /\ opt'[name].pc = "spawned"

C19_ApiFallback ==
  sw.last.branch = "api" =>
    /\ sw.last.online => sw.last.result \in {"network-ok", "network-error-status"}
    /\ ~sw.last.online =>
         sw.last.result = IF sw.last.hit THEN "cached" ELSE "empty-json"
    /\ sw.last.result \notin {"undefined", "rejected"}

\* ---- C20
\* C20: in every 200 or 206 response X-Optimized is 'true' exactly when the
\* file selected for streaming, whose size the length headers use, is the one
\* under the optimized root.
C20_XOptimized ==
  dl.resp.status \in {200, 206} =>
    (dl.resp.xopt = "true" <=> dl.filePath = OptimizedPath(dl.filename))

\* ---- C21
\* C21: whatever the optimizer is doing, the body of a 200 or 206 response is
\* made of bytes of a complete file, the original or a completely written
\* optimized variant, never of one the optimizer is still writing or has
\* abandoned; and the Content-Length of an unencoded response to a request
\* for the whole file is the number of bytes sent.
C21_NoUnfinishedServed ==
  (dl.pc = "done" /\ dl.resp.status \in {200, 206}) =>
    /\ BodyLen(dl.resp.body) > 0 => dl.resp.body.kind # "partial"
    /\ (~dl.range.present /\ dl.resp.enc = "identity" /\ dl.resp.clen.present) =>
         dl.resp.clen.n = Num(BodyLen(dl.resp.body))

\* ---- C22
\* C22: the props list of a stored record has pairwise distinct paths, and
\* the file that the k-th path names, while it is the one this upload
\* stored, holds the content of the k-th prop file uploaded.
C22_OwnPaths ==
  \A id \in Ids :
    LET rec == GetDB[id]
    IN  rec # NoRec =>
          \A k \in 1..Len(rec.props) :
            /\ \A j \in 1..Len(rec.props) : j # k => rec.props[j] # rec.props[k]
            /\ LET file == FileAt(fs, Append(UPLOADS_DIR, rec.props[k]))
               IN  (file.kind = "props" /\ file.of = rec.n) => file.idx = k

\* ---- C23
\* C23: an upload request answered with an error status (400, 413 or 500)
\* leaves the store as the mirror shows it, and the on-disk copy, as they
\* were before the step that answered.
C23_ErrorAddsNoRecord ==
  [][(log'.answers = log.answers + 1 /\ log'.last.status \in {400, 413, 500})
       => (GetDB' = GetDB /\ dbDisk' = dbDisk)]_vars

\* ---- C24
\* C24: a 206 answer to a request for a file by its plain name has integer
\* start and end with 0 <= start <= end <= fileSize - 1, a Content-Range
\* naming them, Content-Length end - start + 1 >= 1 and, unless the body is
\* encoded, exactly that many body bytes.
C24_WellFormed206 ==
  (dl.pc = "done" /\ dl.resp.status = 206 /\ Len(dl.filename) = 1) =>
    /\ ~dl.start.nan /\ ~dl.end.nan
    /\ 0 <= dl.start.v /\ dl.start.v <= dl.end.v /\ dl.end.v <= dl.fileSize - 1
    /\ dl.resp.crange = CRange(dl.start, dl.end, dl.fileSize)
    /\ dl.resp.clen = Len_(Num(dl.end.v - dl.start.v + 1))
    /\ dl.resp.enc = "identity" => BodyLen(dl.resp.body) = dl.end.v - dl.start.v + 1

====
